---- MODULE Spec2Model ----
(***************************************************************************)
(* Windowed inference of helen's predict_gpu.py: the coordinator           *)
(* predict_gpu spawns total_callers worker processes; each runs setup,     *)
(* which joins the process group, calls predict on its own shard and       *)
(* tears the group down.  predict slides a window over every batch,        *)
(* threads the hidden state through the model, adds the soft-maxed and     *)
(* zero-padded window outputs into two evidence tensors, takes the         *)
(* arg-max and writes the labels to the worker's own output file.          *)
(*                                                                         *)
(* Indices are 0-based as in the source: tensors are functions over        *)
(* 0..n-1.  Lists of files and batches are sequences.                      *)
(***************************************************************************)
EXTENDS Integers, Sequences, FiniteSets, TLC

\* ---------------------------------------------------------------- bounds
\* Largest total length of the sequences a run is given: a run of n files
\* has SEQ_LENGTH up to MaxLen \div n.
MaxLen == 6
\* Largest number of input files of a run.
MaxFiles == 2
\* Largest number of worker processes of a run with more than one worker.
MaxCallers == 2
\* Class counts of the two heads (ImageSizeOptions, outside this source).
TOTAL_BASE_LABELS == 2
TOTAL_RLE_LABELS == 3
\* Significant bits of the floating-point format of the tensors.
MantBits == 2
\* The batches of a worker in the progress reports.
MaxBatches == 3
\* The resolution of the wall clock: readings are multiples of 1/TicksPerSec s.
TicksPerSec == 2

\* ------------------------------------------------------------ arithmetic
Min(a, b) == IF a < b THEN a ELSE b

RECURSIVE Pow2(_)
Pow2(n) == IF n = 0 THEN 1 ELSE 2 * Pow2(n - 1)

RECURSIVE BitLen(_)
BitLen(n) == IF n = 0 THEN 0 ELSE 1 + BitLen(n \div 2)

\* The float value 1.0, in units of the smallest step of the format.
One == Pow2(MantBits)

\* Rounding of an exact non-negative value to the MantBits significant bits
\* a float keeps: to nearest, ties to the even mantissa.
Fl(n) ==
  IF BitLen(n) <= MantBits THEN n
  ELSE LET q == Pow2(BitLen(n) - MantBits)
           lo == (n \div q) * q
           rem == n - lo
       IN  IF 2 * rem < q THEN lo
           ELSE IF 2 * rem > q THEN lo + q
           ELSE IF (n \div q) % 2 = 0 THEN lo ELSE lo + q

\* Variant: the sum is replaced by the last addend.
FloatAddOverwrite(x, y) == y

\* Float addition of two non-negative floats.
FloatAdd(x, y) == Fl(x + y)

RECURSIVE SumTo(_, _)
SumTo(v, n) == IF n = 0 THEN 0 ELSE v[n - 1] + SumTo(v, n - 1)

\* ------------------------------------------------------------- tensors
\* Variant: memory that is not zeroed (torch.empty).
TensorUninit(B, n, C) ==
  [b \in 0..(B - 1) |-> [p \in 0..(n - 1) |-> [c \in 0..(C - 1) |-> IF c = C - 1 THEN 1 ELSE 0]]]

\* torch.zeros((B, n, C)): lines 105-106.
TensorZeros(B, n, C) == [b \in 0..(B - 1) |-> [p \in 0..(n - 1) |-> [c \in 0..(C - 1) |-> 0]]]

\* torch.zeros(images.size(0), ..): the hidden state, one entry an instance.
HiddenZeros(B) == [b \in 0..(B - 1) |-> 0]

\* nn.Softmax(dim=2).  A logit is held as its exponential, a positive
\* integer weight w = exp(logit): the class score is w / (sum of the
\* position's weights), rounded to a float.
Softmax(t) ==
  [b \in DOMAIN t |-> [j \in DOMAIN t[b] |->
     LET ws == t[b][j]
         s == SumTo(ws, Cardinality(DOMAIN ws))
     IN  [c \in DOMAIN ws |-> Fl((2 * ws[c] * One + s) \div (2 * s))]]]

\* Variant: top and bottom exchanged.
ZeroPad2dSwapped(t, top, bottom) ==
  [b \in DOMAIN t |->
     LET n == Cardinality(DOMAIN t[b])
     IN  [p \in 0..(top + n + bottom - 1) |->
            IF p >= bottom /\ p < bottom + n THEN t[b][p - bottom]
            ELSE [c \in DOMAIN t[b][0] |-> 0]]]

\* nn.ZeroPad2d((0, 0, top, bottom)): rows of zeros before and after the
\* rows of t on the sequence axis.
ZeroPad2d(t, top, bottom) ==
  [b \in DOMAIN t |->
     LET n == Cardinality(DOMAIN t[b])
     IN  [p \in 0..(top + n + bottom - 1) |->
            IF p >= top /\ p < top + n THEN t[b][p - top]
            ELSE [c \in DOMAIN t[b][0] |-> 0]]]

\* No window output added yet at any position.
NoneAdded(B, n) == [b \in 0..(B - 1) |-> [p \in 0..(n - 1) |-> 0]]

\* The counts after adding the padded window output y: a position counts
\* one more where y has a row of the window, which is never all zero.
CountAdded(cnt, y) ==
  [b \in DOMAIN cnt |-> [p \in DOMAIN cnt[b] |->
     IF p \in DOMAIN y[b] /\ \E c \in DOMAIN y[b][p] : y[b][p][c] # 0
     THEN cnt[b][p] + 1 ELSE cnt[b][p]]]

\* torch.add of two tensors of one shape.
TorchAdd(x, y) ==
  [b \in DOMAIN x |-> [p \in DOMAIN x[b] |-> [c \in DOMAIN x[b][p] |->
     FloatAdd(x[b][p][c], y[b][p][c])]]]

\* Variant: the index of the last maximal value.
ArgMaxLast(v) ==
  CHOOSE c \in DOMAIN v :
    /\ \A d \in DOMAIN v : v[d] <= v[c]
    /\ \A d \in DOMAIN v : v[d] = v[c] => d <= c

\* The index torch.max(v) returns for one class vector: of the first
\* maximal value.
ArgMax(v) ==
  CHOOSE c \in DOMAIN v :
    /\ \A d \in DOMAIN v : v[d] <= v[c]
    /\ \A d \in DOMAIN v : v[d] = v[c] => c <= d

\* torch.max(tensor, 2)[1]: the labels, lines 155-156.
TorchMaxLabels(t) == [b \in DOMAIN t |-> [p \in DOMAIN t[b] |-> ArgMax(t[b][p])]]

\* ------------------------------------------------------- model and data
\* The responses a loaded model can give to one invocation.  The network is
\* an external collaborator: each invocation returns one of these.
Responses == {0, 1}

\* One position's logits (as weights, see Softmax) over C classes:
\* favouring the first class, flat, favouring the last class.
LogitVec(idx, C) ==
  [c \in 0..(C - 1) |->
     IF idx = 0 /\ c = 0 THEN 3
     ELSE IF idx = 2 /\ c = C - 1 THEN 3
     ELSE 1]

\* The [B x W x C] output tensor of response k: its rows differ along the
\* window and between the instances of the batch.
ModelOutput(k, B, W, C) ==
  [b \in 0..(B - 1) |-> [j \in 0..(W - 1) |-> LogitVec((k + b + j) % 3, C)]]

\* The hidden state an invocation returns: a value no other invocation of
\* the worker returns (n counts the worker's invocations), never zero.
NewHidden(n, B) == [b \in 0..(B - 1) |-> n]

RECURSIVE SortedSeq(_)
SortedSeq(S) ==
  IF S = {} THEN <<>>
  ELSE LET m == CHOOSE x \in S : \A y \in S : x <= y
       IN  <<m>> \o SortedSeq(S \ {m})

\* The shard lists the caller of predict_gpu builds for N workers from the
\* files F: disjoint, together all of F.
ShardAssignments(F, N) ==
  { [r \in 0..(N - 1) |-> SortedSeq({f \in F : a[f] = r})] : a \in [F -> 0..(N - 1)] }

\* SequenceDataset(file_list=test_file): one instance a file, in list order.
SequenceDataset(file_list) == file_list

\* len(test_loader) of DataLoader(test_data, batch_size, shuffle=False).
LoaderLen(test_data, batch_size) == (Len(test_data) + batch_size - 1) \div batch_size

\* The n-th batch (n = 1, 2, ..) the loader yields: the next batch_size
\* instances, fewer in the last batch.
LoaderBatch(test_data, batch_size, n) ==
  SubSeq(test_data, (n - 1) * batch_size + 1, Min(n * batch_size, Len(test_data)))

\* str(rank) of a rank below 100.
Digit(d) == CASE d = 0 -> "0" [] d = 1 -> "1" [] d = 2 -> "2" [] d = 3 -> "3"
              [] d = 4 -> "4" [] d = 5 -> "5" [] d = 6 -> "6" [] d = 7 -> "7"
              [] d = 8 -> "8" [] OTHER -> "9"

Str(n) == IF n < 10 THEN Digit(n) ELSE Digit(n \div 10) \o Digit(n % 10)

\* Variant: a path without the rank.
OutputPathShared(output_filename, rank) == output_filename \o ".hdf"

\* output_filename + "_" + str(rank) + ".hdf": line 55.
OutputPath(output_filename, rank) == output_filename \o "_" \o Str(rank) \o ".hdf"

\* ---------------------------------------------------------------- state
VARIABLES
  options,                \* SEQ_LENGTH, TRAIN_WINDOW, WINDOW_JUMP
  args,                   \* the arguments of predict_gpu
  transducer_model,       \* the loaded model: the responses it can give
  parent,                 \* predict_gpu: "start", "joining", "returned", "raised"
  arrived,                \* ranks that have called init_process_group
  group,                  \* ranks that are members of the process group
  fs,                     \* the files on disk: path -> openers and records
  pc,                     \* each worker's place in setup / predict
  failure,                \* the batch (1, 2, ..) in which the worker's model raised, or 0
  prediction_data_file,   \* each worker's open output file (its path)
  total_batches,
  batch_iterator,
  batch,                  \* the filenames of the batch being processed
  i,                      \* the window loop's variable
  hidden,
  prediction_base_tensor,
  prediction_rle_tensor,
  predicted_base_labels,
  predicted_rle_labels,
  calls,                  \* the model invocations of the current batch
  base_added,             \* window outputs added at each position of the
  rle_added,              \*   current batch's tensors, for either head
  invocations,            \* the number of model invocations of each worker
  fuse_windows,           \* fusing alone: the windows and their outputs,
  fuse_size,              \*   the number of instances,
  fuse_done,              \*   the windows fused so far,
  fuse_base,              \*   and the two tensors fused from them
  fuse_rle,
  elapsed,                \* progress reports alone: time.time() - start_time of
                          \*   each worker's batch, in ticks,
  stderr                  \*   and the progress lines written so far

runVars == <<options, args, transducer_model>>
coordVars == <<parent, arrived, group>>
fileVars == <<fs, prediction_data_file>>
loopVars == <<total_batches, batch_iterator, batch>>
windowVars == <<i, hidden, prediction_base_tensor, prediction_rle_tensor, calls,
                base_added, rle_added, invocations>>
labelVars == <<predicted_base_labels, predicted_rle_labels>>
fuseVars == <<fuse_windows, fuse_size, fuse_done, fuse_base, fuse_rle>>
reportVars == <<elapsed, stderr>>
vars == <<runVars, coordVars, fileVars, loopVars, windowVars, labelVars, pc, failure, fuseVars,
         reportVars>>

Ranks == 0..(args.total_callers - 1)
L == options.SEQ_LENGTH
W == options.TRAIN_WINDOW
J == options.WINDOW_JUMP

\* ----------------------------------------------------------------- Init
\* The window geometries: 1 <= WINDOW_JUMP <= TRAIN_WINDOW <= SEQ_LENGTH.
Geometries(maxLen) ==
  { [SEQ_LENGTH |-> l, TRAIN_WINDOW |-> w, WINDOW_JUMP |-> j] :
      l \in 1..maxLen, w \in 1..maxLen, j \in 1..maxLen } 

\* Before predict_gpu has spawned anything.
NotStarted ==
  /\ parent = "start"
  /\ arrived = {}
  /\ group = {}
  /\ fs = <<>>
  /\ pc = [r \in Ranks |-> "unspawned"]
  /\ failure = [r \in Ranks |-> 0]
  /\ prediction_data_file = [r \in Ranks |-> ""]
  /\ total_batches = [r \in Ranks |-> 0]
  /\ batch_iterator = [r \in Ranks |-> 0]
  /\ batch = [r \in Ranks |-> <<>>]
  /\ i = [r \in Ranks |-> 0]
  /\ hidden = [r \in Ranks |-> <<>>]
  /\ prediction_base_tensor = [r \in Ranks |-> <<>>]
  /\ prediction_rle_tensor = [r \in Ranks |-> <<>>]
  /\ predicted_base_labels = [r \in Ranks |-> <<>>]
  /\ predicted_rle_labels = [r \in Ranks |-> <<>>]
  /\ calls = [r \in Ranks |-> <<>>]
  /\ base_added = [r \in Ranks |-> <<>>]
  /\ rle_added = [r \in Ranks |-> <<>>]
  /\ invocations = [r \in Ranks |-> 0]
  /\ elapsed = [r \in Ranks |-> 0]
  /\ stderr = <<>>

Init ==
  /\ \E N \in 1..MaxCallers, n \in 1..MaxFiles :
       /\ \E bs \in 1..n, ch \in ShardAssignments(1..n, N) :
            args = [file_chunks |-> ch, output_filepath |-> "out",
                    batch_size |-> bs, total_callers |-> N]
       /\ \E g \in Geometries(MaxLen \div n) :
            /\ g.WINDOW_JUMP <= g.TRAIN_WINDOW
            /\ g.TRAIN_WINDOW <= g.SEQ_LENGTH
            /\ options = g
       \* a run of several workers is given a model of one response
       /\ transducer_model = IF N = 1 THEN Responses ELSE {0}
  /\ NotStarted
  /\ fuse_windows = <<>>
  /\ fuse_size = 0
  /\ fuse_done = {}
  /\ fuse_base = <<>>
  /\ fuse_rle = <<>>


\* ------------------------------------------------------ setup, predict
\* all_input_files[rank]: the shard setup hands to predict, line 197.
\* Variant: every rank is handed the first shard.
TestFileFirst(rank) == args.file_chunks[0]

TestFile(rank) == args.file_chunks[rank]

\* The test of line 116: the window starting at i0 would pass the end.
\* Variant: a window is kept as long as it starts inside the sequence.
WindowBreakClip(i0, w, l) == i0 + w > l + w - 1

WindowBreak(i0, w, l) == i0 + w > l

\* range(0, SEQ_LENGTH, WINDOW_JUMP) yields i0 and the loop does not break.
WindowRuns(i0, l, w) == i0 < l /\ ~WindowBreak(i0, w, l)

\* The chunk_start values of the window loop of lines 114-119, from i0 on.
RECURSIVE WindowOffsets(_, _, _, _)
WindowOffsets(i0, l, w, j) ==
  IF WindowRuns(i0, l, w) THEN <<i0>> \o WindowOffsets(i0 + j, l, w, j) ELSE <<>>

\* Lines 133-134.
TopZeros(chunk_start, chunk_end) == chunk_start

BottomZeros(chunk_start, chunk_end) == L - chunk_end

\* Lines 131-149 for one head: soft-max the window's output, pad it to
\* the sequence length and add it to the running tensor.
Fuse(tensor, output, chunk_start, chunk_end) ==
  TorchAdd(tensor, ZeroPad2d(Softmax(output), TopZeros(chunk_start, chunk_end),
                             BottomZeros(chunk_start, chunk_end)))

\* The hidden state after line 129, which assigns the returned one.
\* Variant: the returned hidden state is dropped.
HiddenAfterStale(hidden_in, returned) == hidden_in

HiddenAfter(hidden_in, returned) == returned

\* What becomes of the worker when the model raises at line 129: nothing
\* catches the exception, the process ends with a failure status.
\* Variant: the exception is caught and the batch goes on.
AfterRaiseSwallowed == "resolve"

AfterRaise == "failed"

\* mp.spawn(setup, nprocs=total_callers, join=True): lines 223-226.
Spawn ==
  /\ parent = "start"
  /\ parent' = "joining"
  /\ pc' = [r \in Ranks |-> "setup"]
  /\ UNCHANGED <<reportVars, fuseVars, failure, runVars, arrived, group, fileVars, loopVars, windowVars, labelVars>>

\* dist.init_process_group("gloo", rank, world_size): lines 187-191.
InitProcessGroup(r) ==
  /\ pc[r] = "setup"
  /\ arrived' = arrived \cup {r}
  /\ pc' = [pc EXCEPT ![r] = "rendezvous"]
  /\ UNCHANGED <<reportVars, fuseVars, failure, runVars, parent, group, fileVars, loopVars, windowVars, labelVars>>

\* init_process_group returns once all world_size ranks have arrived.
GroupReady(r) ==
  /\ pc[r] = "rendezvous"
  /\ arrived = Ranks
  /\ group' = group \cup {r}
  /\ pc' = [pc EXCEPT ![r] = "predict"]
  /\ UNCHANGED <<reportVars, fuseVars, failure, runVars, parent, arrived, fileVars, loopVars, windowVars, labelVars>>

\* predict, lines 55-91: open the output file (mode 'w'), load the model,
\* build the loader over the worker's shard.
OpenOutput(r) ==
  /\ pc[r] = "predict"
  /\ LET path == OutputPath(args.output_filepath, r)
         openers == IF path \in DOMAIN fs THEN fs[path].openers ELSE {}
     IN  /\ fs' = (path :> [openers |-> openers \cup {r}, records |-> <<>>]) @@ fs
         /\ prediction_data_file' = [prediction_data_file EXCEPT ![r] = path]
  /\ total_batches' = [total_batches EXCEPT
                         ![r] = LoaderLen(SequenceDataset(TestFile(r)), args.batch_size)]
  /\ batch_iterator' = [batch_iterator EXCEPT ![r] = 0]
  /\ pc' = [pc EXCEPT ![r] = "next_batch"]
  /\ UNCHANGED <<reportVars, fuseVars, failure, runVars, coordVars, batch, windowVars, labelVars>>

\* Lines 94-110: the loader yields the next batch; hidden state and both
\* evidence tensors are set to zero.
FetchBatch(r) ==
  /\ pc[r] = "next_batch"
  /\ batch_iterator[r] < total_batches[r]
  /\ LET images == LoaderBatch(SequenceDataset(TestFile(r)), args.batch_size,
                               batch_iterator[r] + 1)
         B == Len(images)
     IN  /\ batch' = [batch EXCEPT ![r] = images]
         /\ hidden' = [hidden EXCEPT ![r] = HiddenZeros(B)]
         /\ prediction_base_tensor' = [prediction_base_tensor EXCEPT
                                         ![r] = TensorZeros(B, L, TOTAL_BASE_LABELS)]
         /\ prediction_rle_tensor' = [prediction_rle_tensor EXCEPT
                                        ![r] = TensorZeros(B, L, TOTAL_RLE_LABELS)]
         /\ base_added' = [base_added EXCEPT ![r] = NoneAdded(B, L)]
         /\ rle_added' = [rle_added EXCEPT ![r] = NoneAdded(B, L)]
  /\ i' = [i EXCEPT ![r] = 0]
  /\ calls' = [calls EXCEPT ![r] = <<>>]
  /\ pc' = [pc EXCEPT ![r] = "window_loop"]
  /\ UNCHANGED <<reportVars, fuseVars, failure, runVars, coordVars, fileVars, total_batches, batch_iterator,
                 invocations, labelVars>>

\* The loader is exhausted: predict returns.
LoaderExhausted(r) ==
  /\ pc[r] = "next_batch"
  /\ batch_iterator[r] >= total_batches[r]
  /\ pc' = [pc EXCEPT ![r] = "cleanup"]
  /\ UNCHANGED <<reportVars, fuseVars, failure, runVars, coordVars, fileVars, loopVars, windowVars, labelVars>>

\* One iteration of the window loop, lines 114-149: slice the chunk, run
\* the model, soft-max and pad its two outputs, add them to the tensors.
WindowStep(r) ==
  /\ pc[r] = "window_loop"
  /\ WindowRuns(i[r], L, W)
  /\ \E k \in transducer_model :
       LET chunk_start == i[r]
           chunk_end == i[r] + W
           B == Len(batch[r])
           rows == Min(chunk_end, L) - chunk_start
           output_base == ModelOutput(k, B, rows, TOTAL_BASE_LABELS)
           output_rle == ModelOutput(k + 1, B, rows, TOTAL_RLE_LABELS)
           returned == NewHidden(invocations[r] + 1, B)
           top_zeros == TopZeros(chunk_start, chunk_end)
           bottom_zeros == BottomZeros(chunk_start, chunk_end)
           base_prediction == ZeroPad2d(Softmax(output_base), top_zeros, bottom_zeros)
           rle_prediction == ZeroPad2d(Softmax(output_rle), top_zeros, bottom_zeros)
           base_sum == Fuse(prediction_base_tensor[r], output_base, chunk_start, chunk_end)
           rle_sum == Fuse(prediction_rle_tensor[r], output_rle, chunk_start, chunk_end)
       IN  /\ hidden' = [hidden EXCEPT ![r] = HiddenAfter(hidden[r], returned)]
           /\ prediction_base_tensor' = [prediction_base_tensor EXCEPT ![r] = base_sum]
           /\ prediction_rle_tensor' = [prediction_rle_tensor EXCEPT ![r] = rle_sum]
           /\ calls' = [calls EXCEPT ![r] = Append(@,
                          [chunk_start |-> chunk_start, chunk_end |-> chunk_end,
                           response |-> k, hidden_in |-> hidden[r],
                           hidden_out |-> returned])]
           /\ base_added' = [base_added EXCEPT ![r] = CountAdded(@, base_prediction)]
           /\ rle_added' = [rle_added EXCEPT ![r] = CountAdded(@, rle_prediction)]
  /\ invocations' = [invocations EXCEPT ![r] = @ + 1]
  /\ i' = [i EXCEPT ![r] = @ + J]
  /\ UNCHANGED <<reportVars, fuseVars, failure, runVars, coordVars, fileVars, loopVars, labelVars, pc>>

\* The model raises at line 129.
ModelRaises(r) ==
  /\ pc[r] = "window_loop"
  /\ WindowRuns(i[r], L, W)
  /\ pc' = [pc EXCEPT ![r] = AfterRaise]
  /\ failure' = [failure EXCEPT ![r] = batch_iterator[r] + 1]
  /\ UNCHANGED <<reportVars, fuseVars, runVars, coordVars, fileVars, loopVars, windowVars, labelVars>>

\* The window loop ends: the range is exhausted or line 117 breaks.
WindowLoopExit(r) ==
  /\ pc[r] = "window_loop"
  /\ ~WindowRuns(i[r], L, W)
  /\ pc' = [pc EXCEPT ![r] = "resolve"]
  /\ UNCHANGED <<reportVars, fuseVars, failure, runVars, coordVars, fileVars, loopVars, windowVars, labelVars>>

\* Lines 152-161: the labels of both heads, the batch counter.
Resolve(r) ==
  /\ pc[r] = "resolve"
  /\ predicted_base_labels' = [predicted_base_labels EXCEPT
                                 ![r] = TorchMaxLabels(prediction_base_tensor[r])]
  /\ predicted_rle_labels' = [predicted_rle_labels EXCEPT
                                ![r] = TorchMaxLabels(prediction_rle_tensor[r])]
  /\ batch_iterator' = [batch_iterator EXCEPT ![r] = @ + 1]
  /\ pc' = [pc EXCEPT ![r] = "write"]
  /\ UNCHANGED <<reportVars, fuseVars, failure, runVars, coordVars, fileVars, total_batches, batch, windowVars>>

\* Lines 176-179: one write_prediction for each instance of the batch.
WritePredictions(r) ==
  /\ pc[r] = "write"
  /\ LET path == prediction_data_file[r]
         written == [n \in 1..Len(batch[r]) |->
                       [filename |-> batch[r][n], writer |-> r,
                        base |-> predicted_base_labels[r][n - 1],
                        rle |-> predicted_rle_labels[r][n - 1]]]
     IN  fs' = [fs EXCEPT ![path].records = @ \o written]
  /\ pc' = [pc EXCEPT ![r] = "next_batch"]
  /\ UNCHANGED <<reportVars, fuseVars, failure, runVars, coordVars, prediction_data_file, loopVars, windowVars, labelVars>>

\* cleanup(): dist.destroy_process_group(), lines 182-183 and 204; setup
\* returns and the process exits with status 0.
Cleanup(r) ==
  /\ pc[r] = "cleanup"
  /\ group' = group \ {r}
  /\ pc' = [pc EXCEPT ![r] = "exited"]
  /\ UNCHANGED <<reportVars, fuseVars, failure, runVars, parent, arrived, fileVars, loopVars, windowVars, labelVars>>

\* Variant: one exited process is enough.
JoinedAny == \E r \in Ranks : pc[r] = "exited"

\* join=True: every spawned process has exited with status 0.
JoinedAll == \A r \in Ranks : pc[r] = "exited"

\* mp.spawn's join is over, predict_gpu returns.
JoinReturn ==
  /\ parent = "joining"
  /\ JoinedAll
  /\ parent' = "returned"
  /\ UNCHANGED <<reportVars, fuseVars, failure, runVars, arrived, group, fileVars, loopVars, windowVars, labelVars, pc>>

\* mp.spawn's join: a process has ended with a failure status; the others
\* are terminated and predict_gpu raises.
JoinRaise ==
  /\ parent = "joining"
  /\ \E r \in Ranks : pc[r] = "failed"
  /\ parent' = "raised"
  /\ pc' = [r \in Ranks |-> IF pc[r] \in {"exited", "failed"} THEN pc[r] ELSE "terminated"]
  /\ UNCHANGED <<reportVars, fuseVars, failure, runVars, arrived, group, fileVars, loopVars, windowVars, labelVars>>

Next ==
  \/ Spawn
  \/ JoinReturn
  \/ JoinRaise
  \/ \E r \in Ranks : InitProcessGroup(r)
  \/ \E r \in Ranks : GroupReady(r)
  \/ \E r \in Ranks : OpenOutput(r)
  \/ \E r \in Ranks : FetchBatch(r)
  \/ \E r \in Ranks : LoaderExhausted(r)
  \/ \E r \in Ranks : WindowStep(r)
  \/ \E r \in Ranks : ModelRaises(r)
  \/ \E r \in Ranks : WindowLoopExit(r)
  \/ \E r \in Ranks : Resolve(r)
  \/ \E r \in Ranks : WritePredictions(r)
  \/ \E r \in Ranks : Cleanup(r)

Spec == Init /\ [][Next]_vars

\* The parent blocks in mp.spawn's join on the processes' sentinels: it is
\* woken when a process has ended, and then returns or raises.
SpecJoin == Spec /\ WF_vars(JoinRaise) /\ WF_vars(JoinReturn)

\* --------------------------------------------------------------- claims
\* The worker is past the window loop of its current batch.
LoopDone(r) == pc[r] \in {"resolve", "write"}

\* The number of windows of the schedule: k = 0 .. floor((L - W) / J).
NumWindows == (L - W) \div J + 1

\* The scheduled windows [s, s + W) that contain position p.
Covering(p) == {k \in 0..(NumWindows - 1) : k * J <= p /\ p < k * J + W}

\* C1: the windows a batch evaluates are those with start offsets k*J,
\* k = 0 .. floor((L-W)/J), in increasing order, each with end = start + W
\* and none with start + W > L; for L=1000, W=100, J=50 they are the 19
\* windows at 0, 50, .., 900.
C1_WindowSchedule ==
  /\ \A r \in Ranks :
       /\ \A n \in 1..Len(calls[r]) :
            /\ calls[r][n].chunk_start = (n - 1) * J
            /\ calls[r][n].chunk_end = calls[r][n].chunk_start + W
            /\ calls[r][n].chunk_end <= L
       /\ Len(calls[r]) <= NumWindows
       /\ LoopDone(r) => Len(calls[r]) = NumWindows
  /\ parent = "start" =>
       WindowOffsets(0, 1000, 100, 50) = [n \in 1..19 |-> 50 * (n - 1)]

\* A batch whose loop is over, with two windows evaluated and a third
\* dropped because it would pass the end.
C1_Witness ==
  \E r \in Ranks :
    /\ LoopDone(r)
    /\ Len(calls[r]) = 2
    /\ (L - W) % J # 0
    /\ 2 * J < L

\* The float sum, in call order, of what the first n calls of the batch
\* contribute to class c of position p of instance b: row p - s of the
\* soft-maxed output of a window [s, s + W) that contains p, else nothing.
\* shift is 0 for the base head and 1 for the run-length head.
RECURSIVE Evidence(_, _, _, _, _, _, _)
Evidence(r, n, shift, C, b, p, c) ==
  IF n = 0 THEN 0
  ELSE LET s == calls[r][n].chunk_start
           out == Softmax(ModelOutput(calls[r][n].response + shift, Len(batch[r]), W, C))
           before == Evidence(r, n - 1, shift, C, b, p, c)
       IN  IF s <= p /\ p < s + W THEN Fl(before + out[b][p - s][c]) ELSE before

\* C2: at the end of a batch's window loop every position of every
\* instance has received, in either head, as many window outputs as there
\* are scheduled windows containing it; the tensors start at zero for each
\* batch, and row j of the window starting at s is added at position s + j.
C2_EvidenceCoverage ==
  \A r \in Ranks :
    /\ (pc[r] = "window_loop" /\ calls[r] = <<>>) =>
         /\ prediction_base_tensor[r] = TensorZeros(Len(batch[r]), L, TOTAL_BASE_LABELS)
         /\ prediction_rle_tensor[r] = TensorZeros(Len(batch[r]), L, TOTAL_RLE_LABELS)
    /\ LoopDone(r) =>
         \A b \in 0..(Len(batch[r]) - 1), p \in 0..(L - 1) :
           /\ base_added[r][b][p] = Cardinality(Covering(p))
           /\ rle_added[r][b][p] = Cardinality(Covering(p))
           /\ \A c \in 0..(TOTAL_BASE_LABELS - 1) :
                prediction_base_tensor[r][b][p][c] =
                  Evidence(r, Len(calls[r]), 0, TOTAL_BASE_LABELS, b, p, c)
           /\ \A c \in 0..(TOTAL_RLE_LABELS - 1) :
                prediction_rle_tensor[r][b][p][c] =
                  Evidence(r, Len(calls[r]), 1, TOTAL_RLE_LABELS, b, p, c)

\* L=6, W=4, J=2: positions 2 and 3 have two
\* additions, positions 0, 1, 4 and 5 one.
C2_Witness ==
  \E r \in Ranks :
    /\ LoopDone(r)
    /\ L = 6 /\ W = 4 /\ J = 2
    /\ \A b \in 0..(Len(batch[r]) - 1) :
         /\ \A p \in {2, 3} : base_added[r][b][p] = 2 /\ rle_added[r][b][p] = 2
         /\ \A p \in {0, 1, 4, 5} : base_added[r][b][p] = 1 /\ rle_added[r][b][p] = 1

\* C3: after a batch is resolved, a position no window contains has
\* all-zero evidence in both heads and is written with class id 0 in both
\* label sequences.
C3_NoCoverageDefault ==
  /\ \A r \in Ranks :
       pc[r] = "write" =>
         \A b \in 0..(Len(batch[r]) - 1), p \in 0..(L - 1) :
           Covering(p) = {} =>
             /\ \A c \in 0..(TOTAL_BASE_LABELS - 1) : prediction_base_tensor[r][b][p][c] = 0
             /\ \A c \in 0..(TOTAL_RLE_LABELS - 1) : prediction_rle_tensor[r][b][p][c] = 0
             /\ predicted_base_labels[r][b][p] = 0
             /\ predicted_rle_labels[r][b][p] = 0
  /\ \A path \in DOMAIN fs :
       \A n \in 1..Len(fs[path].records), p \in 0..(L - 1) :
         Covering(p) = {} =>
           /\ fs[path].records[n].base[p] = 0
           /\ fs[path].records[n].rle[p] = 0

\* A written prediction with a tail position no window contains (L - W is
\* no multiple of J) and a covered position labelled other than 0.
C3_Witness ==
  \E path \in DOMAIN fs :
    \E n \in 1..Len(fs[path].records), p, q, q2 \in 0..(L - 1) :
      /\ (L - W) % J # 0
      /\ p >= (NumWindows - 1) * J + W
      /\ Covering(p) = {}
      /\ fs[path].records[n].base[p] = 0
      /\ fs[path].records[n].rle[p] = 0
      /\ fs[path].records[n].base[q] # 0
      /\ fs[path].records[n].rle[q2] # 0

\* Label lab is a class of maximal value in v, the lowest such class.
FirstMaximal(v, lab) ==
  /\ lab \in DOMAIN v
  /\ \A c \in DOMAIN v : v[c] <= v[lab]
  /\ \A c \in DOMAIN v : v[c] = v[lab] => lab <= c

\* C4: every resolved label is a class of maximal accumulated evidence at
\* its position, the lowest class id among those that tie for the maximum;
\* equal evidence tensors resolve to equal label sequences.
C4_ArgMaxLowestTie ==
  /\ \A r \in Ranks :
       pc[r] = "write" =>
         \A b \in 0..(Len(batch[r]) - 1), p \in 0..(L - 1) :
           /\ FirstMaximal(prediction_base_tensor[r][b][p], predicted_base_labels[r][b][p])
           /\ FirstMaximal(prediction_rle_tensor[r][b][p], predicted_rle_labels[r][b][p])
  /\ \A r1, r2 \in Ranks :
       (pc[r1] = "write" /\ pc[r2] = "write") =>
         /\ prediction_base_tensor[r1] = prediction_base_tensor[r2] =>
              predicted_base_labels[r1] = predicted_base_labels[r2]
         /\ prediction_rle_tensor[r1] = prediction_rle_tensor[r2] =>
              predicted_rle_labels[r1] = predicted_rle_labels[r2]

\* A resolved batch with a position where two classes tie for a non-zero
\* maximum, and a position whose label is not class 0.
C4_Witness ==
  \E r \in Ranks :
    /\ pc[r] = "write"
    /\ \E b \in 0..(Len(batch[r]) - 1), p, q, q2 \in 0..(L - 1) :
         LET v == prediction_base_tensor[r][b][p]
             lab == predicted_base_labels[r][b][p]
         IN  /\ v[lab] > 0
             /\ \E c \in DOMAIN v : c > lab /\ v[c] = v[lab]
             /\ predicted_base_labels[r][b][q] # 0
             /\ predicted_rle_labels[r][b][q2] # 0

\* The elements of a sequence.
Range(q) == {q[n] : n \in DOMAIN q}

\* The input file set: the files of all the shards handed to predict_gpu.
AllFiles == UNION {Range(args.file_chunks[c]) : c \in DOMAIN args.file_chunks}

\* The records worker r has written, in any file.
RecordsBy(r) ==
  UNION {{<<path, n>> : n \in {m \in DOMAIN fs[path].records : fs[path].records[m].writer = r}}
           : path \in DOMAIN fs}

\* The input files worker r has written predictions for.
Consumed(r) == {fs[e[1]].records[e[2]].filename : e \in RecordsBy(r)}

\* C6: the shards the workers consume partition the input file set: no
\* file is processed by two workers or twice, and when predict_gpu has
\* returned every file has been processed.
C6_ShardsPartition ==
  /\ \A r1, r2 \in Ranks : r1 # r2 => Consumed(r1) \cap Consumed(r2) = {}
  /\ \A r \in Ranks :
       /\ Cardinality(RecordsBy(r)) = Cardinality(Consumed(r))
       /\ Consumed(r) \subseteq AllFiles
  /\ parent = "returned" => UNION {Consumed(r) : r \in Ranks} = AllFiles

\* predict_gpu has returned from a run of two workers that each had files.
C6_Witness ==
  /\ parent = "returned"
  /\ args.total_callers = 2
  /\ \A r \in Ranks : Consumed(r) # {}

\* The paths worker r has opened.
OpenedBy(r) == {path \in DOMAIN fs : r \in fs[path].openers}

\* C7: each worker opens and writes one output file, named by the output
\* prefix and its rank; no path is opened or written by two workers, and
\* every write_prediction of a worker goes to the file it opened.
C7_OwnOutputFile ==
  /\ \A path \in DOMAIN fs :
       /\ Cardinality(fs[path].openers) = 1
       /\ \A n \in DOMAIN fs[path].records : fs[path].records[n].writer \in fs[path].openers
  /\ \A r \in Ranks :
       /\ Cardinality(OpenedBy(r)) <= 1
       /\ pc[r] \in {"next_batch", "window_loop", "resolve", "write", "cleanup", "exited"} =>
            OpenedBy(r) = {prediction_data_file[r]}
       /\ \A path \in OpenedBy(r) :
            /\ r = 0 => path = "out_0.hdf"
            /\ r = 1 => path = "out_1.hdf"
            /\ r = 2 => path = "out_2.hdf"
  /\ \A r1, r2 \in Ranks : r1 # r2 => OpenedBy(r1) \cap OpenedBy(r2) = {}

\* Two workers have each written predictions, to two files.
C7_Witness ==
  /\ \A r \in {0, 1} : r \in Ranks /\ Consumed(r) # {}
  /\ Cardinality(DOMAIN fs) = 2

\* The worker states of the coordinator's state machine, by the place of
\* the worker in setup and predict.
WorkerState(r) ==
  CASE pc[r] \in {"unspawned", "setup", "rendezvous"} -> "UNINITIALIZED"
    [] pc[r] = "predict" -> "JOINED_GROUP"
    [] pc[r] \in {"next_batch", "window_loop", "resolve", "write", "cleanup"} -> "RUNNING_BATCHES"
    [] pc[r] = "exited" -> "FINISHED"
    [] OTHER -> "FAILED"

StateRank(st) ==
  CASE st = "UNINITIALIZED" -> 0 [] st = "JOINED_GROUP" -> 1
    [] st = "RUNNING_BATCHES" -> 2 [] st = "FINISHED" -> 3 [] OTHER -> 4

\* No model invocation of the run has raised.
FailureFree == \A r \in Ranks : failure[r] = 0 /\ pc[r] \notin {"failed", "terminated"}

\* What holds of every state of a failure-free run.
LifecycleInv ==
  FailureFree =>
    /\ \A r \in Ranks :
         \* nothing of predict before the group is joined
         /\ WorkerState(r) = "UNINITIALIZED" =>
              /\ r \notin group
              /\ OpenedBy(r) = {} /\ invocations[r] = 0 /\ batch_iterator[r] = 0
         /\ WorkerState(r) \in {"JOINED_GROUP", "RUNNING_BATCHES"} => r \in group
         /\ invocations[r] > 0 => r \in arrived
         \* the group is left only with the whole shard written
         /\ WorkerState(r) = "FINISHED" =>
              /\ r \notin group
              /\ batch_iterator[r] = total_batches[r]
              /\ [n \in DOMAIN fs[prediction_data_file[r]].records |->
                    fs[prediction_data_file[r]].records[n].filename] = args.file_chunks[r]
    /\ parent = "returned" => \A r \in Ranks : WorkerState(r) = "FINISHED"

\* C8: in a failure-free run a worker goes through UNINITIALIZED,
\* JOINED_GROUP, RUNNING_BATCHES, FINISHED in that order, one state at a
\* time; it processes nothing before it has joined the group, leaves the
\* group only after the last batch of its shard is written, and
\* predict_gpu returns only after every worker is FINISHED.
C8_WorkerLifecycle ==
  /\ []LifecycleInv
  /\ [][FailureFree' =>
          \A r \in Ranks :
            \/ WorkerState(r)' = WorkerState(r)
            \/ StateRank(WorkerState(r)') = StateRank(WorkerState(r)) + 1]_vars

\* predict_gpu has returned from a run of two workers, one of which wrote
\* two batches.
C8_Witness ==
  /\ parent = "returned"
  /\ args.total_callers = 2
  /\ FailureFree
  /\ \E r \in Ranks : batch_iterator[r] = 2

\* The filenames of the first n batches of worker r's shard.
FirstBatches(r, n) == SubSeq(args.file_chunks[r], 1, Min(n * args.batch_size, Len(args.file_chunks[r])))

\* C9: when the model raises in a batch the worker ends failed and stays
\* so, never FINISHED; its file holds the predictions of the batches
\* before that one and nothing of that batch or a later one, so never the
\* whole shard, and predict_gpu does not return normally but raises.
C9_FailurePropagates ==
  /\ [](\A r \in Ranks :
          failure[r] # 0 =>
            /\ pc[r] = "failed"
            /\ batch_iterator[r] = failure[r] - 1
            /\ [n \in DOMAIN fs[prediction_data_file[r]].records |->
                  fs[prediction_data_file[r]].records[n].filename] = FirstBatches(r, failure[r] - 1)
            \* the file never holds the whole shard
            /\ Len(fs[prediction_data_file[r]].records) < Len(args.file_chunks[r])
            /\ parent # "returned")
  /\ [][\A r \in Ranks : failure[r] # 0 => failure'[r] = failure[r] /\ pc'[r] = "failed"]_vars
  /\ (\E r \in Ranks : failure[r] # 0) ~> (parent = "raised")

\* A worker's model raised in its second batch, after a first window of
\* that batch; predict_gpu has raised and the other worker was terminated.
C9_Witness ==
  \E r, q \in Ranks :
    /\ failure[r] = 2
    /\ Len(calls[r]) >= 1
    /\ Len(fs[prediction_data_file[r]].records) = 1
    /\ parent = "raised"
    /\ pc[q] = "terminated"

\* C10: in every batch the model is invoked once for each scheduled
\* window, in increasing start order; the first invocation gets an
\* all-zero hidden state, each later one the hidden state the invocation
\* before it returned, and every hidden state passed is zero or was
\* returned in the same batch.
C10_HiddenThreading ==
  \A r \in Ranks :
    LET B == Len(batch[r])
        first == invocations[r] - Len(calls[r])
    IN  /\ \A n \in DOMAIN calls[r] :
             /\ calls[r][n].chunk_start = (n - 1) * J
             /\ n = 1 => calls[r][n].hidden_in = HiddenZeros(B)
             /\ n > 1 => calls[r][n].hidden_in = calls[r][n - 1].hidden_out
             \* returned in this batch: after the invocations of earlier batches
             /\ \A b \in 0..(B - 1) :
                  /\ calls[r][n].hidden_out[b] > first
                  /\ calls[r][n].hidden_in[b] = 0 \/ calls[r][n].hidden_in[b] > first
             /\ \A m \in DOMAIN calls[r] :
                  m # n => calls[r][m].hidden_out # calls[r][n].hidden_out
        /\ (pc[r] = "window_loop" /\ calls[r] = <<>>) => hidden[r] = HiddenZeros(B)
        /\ (pc[r] = "window_loop" /\ calls[r] # <<>>) =>
             hidden[r] = calls[r][Len(calls[r])].hidden_out
        /\ LoopDone(r) => Len(calls[r]) = NumWindows

\* The window loop of a worker's second batch is over, with at least two
\* invocations.
C10_Witness ==
  \E r \in Ranks :
    /\ pc[r] = "resolve"
    /\ batch_iterator[r] = 1
    /\ Len(calls[r]) >= 2
    /\ calls[r][2].hidden_in = calls[r][1].hidden_out
    /\ calls[r][1].hidden_out[0] > Len(calls[r])

\* ------------------------------------------------------- fusing alone
\* Fusing a fixed set of windows with fixed outputs in any order: the
\* windows of a geometry, each with one of the model's responses, are
\* fused one at a time by Fuse, the next window chosen freely.
InitFuse ==
  /\ \E g \in Geometries(MaxLen) :
       /\ g.WINDOW_JUMP <= g.TRAIN_WINDOW
       /\ g.TRAIN_WINDOW <= g.SEQ_LENGTH
       /\ options = g
  /\ LET starts == WindowOffsets(0, L, W, J)
     IN  \E ks \in [1..Len(starts) -> Responses] :
           fuse_windows = [n \in 1..Len(starts) |->
                             [chunk_start |-> starts[n], chunk_end |-> starts[n] + W,
                              response |-> ks[n]]]
  /\ fuse_size \in 1..MaxFiles
  /\ fuse_done = {}
  /\ fuse_base = TensorZeros(fuse_size, L, TOTAL_BASE_LABELS)
  /\ fuse_rle = TensorZeros(fuse_size, L, TOTAL_RLE_LABELS)
  /\ args = [file_chunks |-> [r \in {0} |-> <<>>], output_filepath |-> "out",
             batch_size |-> 1, total_callers |-> 1]
  /\ transducer_model = Responses
  /\ NotStarted

\* Lines 131-149 applied to window n, not fused before.
FuseWindow(n) ==
  /\ n \notin fuse_done
  /\ LET call == fuse_windows[n]
     IN  /\ fuse_base' = Fuse(fuse_base,
                              ModelOutput(call.response, fuse_size, W, TOTAL_BASE_LABELS),
                              call.chunk_start, call.chunk_end)
         /\ fuse_rle' = Fuse(fuse_rle,
                             ModelOutput(call.response + 1, fuse_size, W, TOTAL_RLE_LABELS),
                             call.chunk_start, call.chunk_end)
  /\ fuse_done' = fuse_done \cup {n}
  /\ UNCHANGED <<reportVars, fuse_windows, fuse_size, runVars, coordVars, fileVars, loopVars,
                 windowVars, labelVars, pc, failure>>

NextFuse == \E n \in DOMAIN fuse_windows : FuseWindow(n)

SpecFuse == InitFuse /\ [][NextFuse]_vars

\* The tensor of one head (shift 0: base, 1: run-length; C classes) after
\* fusing the first n windows in the order of the window loop.
RECURSIVE FusedInLoopOrder(_, _, _)
FusedInLoopOrder(n, shift, C) ==
  IF n = 0 THEN TensorZeros(fuse_size, L, C)
  ELSE Fuse(FusedInLoopOrder(n - 1, shift, C),
            ModelOutput(fuse_windows[n].response + shift, fuse_size, W, C),
            fuse_windows[n].chunk_start, fuse_windows[n].chunk_end)

\* All windows are fused, and the tensors and labels are those of fusing
\* in the order of the window loop.
SameAsLoopOrder ==
  fuse_done = DOMAIN fuse_windows =>
    LET base == FusedInLoopOrder(Len(fuse_windows), 0, TOTAL_BASE_LABELS)
        rle == FusedInLoopOrder(Len(fuse_windows), 1, TOTAL_RLE_LABELS)
    IN  /\ fuse_base = base
        /\ fuse_rle = rle
        /\ TorchMaxLabels(fuse_base) = TorchMaxLabels(base)
        /\ TorchMaxLabels(fuse_rle) = TorchMaxLabels(rle)

\* C5 as stated: for fixed windows with fixed outputs, the fused evidence
\* tensor and the labels resolved from it are the same for every order in
\* which the windows are fused.
C5_AnyOrderSame == SameAsLoopOrder

\* C5, amended: the same, for window sets in which no position is covered
\* by more than two windows.
C5_OrderInvariantUpToTwo ==
  (\A p \in 0..(L - 1) : Cardinality(Covering(p)) <= 2) => SameAsLoopOrder

\* At least three windows, all fused; no position is covered by more than
\* two, and at one covered by two the sum of the two rows was rounded.
C5_Witness ==
  /\ Len(fuse_windows) >= 3
  /\ fuse_done = DOMAIN fuse_windows
  /\ \A p \in 0..(L - 1) : Cardinality(Covering(p)) <= 2
  /\ \E p \in 0..(L - 1), b \in 0..(fuse_size - 1) :
       /\ Cardinality(Covering(p)) = 2
       /\ SumTo(fuse_base[b][p], TOTAL_BASE_LABELS) # 2 * One

\* --------------------------------------------------- progress reports
\* Times are exact fractions of a second, num / den with den > 0.  The
\* code computes them in double precision; every value whose integer part
\* is taken here is either a whole number, which the doubles hold exactly,
\* or at least 1 / (3600 * 60 * TicksPerSec) away from one, far more than
\* the rounding of the doubles, so the integer parts are those of the code.
Frac(n, d) == [num |-> n, den |-> d]
FracTimes(x, k) == Frac(x.num * k, x.den)
FracOver(x, k) == Frac(x.num, x.den * k)
FracMinus(x, y) == Frac(x.num * y.den - y.num * x.den, x.den * y.den)

\* int(x): the integer part, towards zero.
PyInt(x) == IF x.num >= 0 THEN x.num \div x.den ELSE -((-x.num) \div x.den)

\* time.time() - start_time, line 165: what the wall clock can show for
\* a batch, in ticks (half a tick, 1.5 s, a minute, an hour).
Durations == {1, TicksPerSec + 1, 60 * TicksPerSec, 3600 * TicksPerSec}

\* Line 165: the estimate, elapsed ticks times the batches that remain.
Eta(ticks, total, done) == FracTimes(Frac(ticks, TicksPerSec), total - done)

\* Lines 166-169: the three numbers of the time stamp.
TimeStamp(eta) ==
  LET hours == PyInt(FracOver(eta, 3600))
      eta2 == FracMinus(eta, FracOver(eta, 3600))
      mins == PyInt(FracOver(eta2, 60))
      secs == PyInt(eta2) % 60
  IN  [hours |-> hours, mins |-> mins, secs |-> secs]

\* Lines 163-173: what the worker writes to stderr after a batch; rank and
\* ticks record who wrote the line and the duration it was computed from.
ProgressLines(rank, ticks, total, done) ==
  IF rank = 0
    THEN << [rank |-> rank, ticks |-> ticks, done |-> done, total |-> total,
             stamp |-> TimeStamp(Eta(ticks, total, done))] >>
    ELSE << >>

\* The workers at the head of the loader loop, line 94, each with a shard
\* of 1..MaxBatches files read in batches of one.
InitEta ==
  /\ \E N \in 1..MaxCallers :
       \E t \in [0..(N - 1) -> 1..MaxBatches] :
         args = [file_chunks |-> [r \in 0..(N - 1) |->
                                    [n \in 1..t[r] |-> r * MaxBatches + n]],
                 output_filepath |-> "out", batch_size |-> 1, total_callers |-> N]
  /\ options = [SEQ_LENGTH |-> 1, TRAIN_WINDOW |-> 1, WINDOW_JUMP |-> 1]
  /\ transducer_model = {0}
  /\ parent = "joining"
  /\ arrived = Ranks
  /\ group = Ranks
  /\ fs = [path \in {OutputPath(args.output_filepath, r) : r \in Ranks} |->
             [openers |-> {r \in Ranks : OutputPath(args.output_filepath, r) = path},
              records |-> <<>>]]
  /\ pc = [r \in Ranks |-> "next_batch"]
  /\ failure = [r \in Ranks |-> 0]
  /\ prediction_data_file = [r \in Ranks |-> OutputPath(args.output_filepath, r)]
  /\ total_batches = [r \in Ranks |->
                        LoaderLen(SequenceDataset(TestFile(r)), args.batch_size)]
  /\ batch_iterator = [r \in Ranks |-> 0]
  /\ batch = [r \in Ranks |-> <<>>]
  /\ i = [r \in Ranks |-> 0]
  /\ hidden = [r \in Ranks |-> <<>>]
  /\ prediction_base_tensor = [r \in Ranks |-> <<>>]
  /\ prediction_rle_tensor = [r \in Ranks |-> <<>>]
  /\ predicted_base_labels = [r \in Ranks |-> <<>>]
  /\ predicted_rle_labels = [r \in Ranks |-> <<>>]
  /\ calls = [r \in Ranks |-> <<>>]
  /\ base_added = [r \in Ranks |-> <<>>]
  /\ rle_added = [r \in Ranks |-> <<>>]
  /\ invocations = [r \in Ranks |-> 0]
  /\ elapsed = [r \in Ranks |-> 0]
  /\ stderr = <<>>
  /\ fuse_windows = <<>>
  /\ fuse_size = 0
  /\ fuse_done = {}
  /\ fuse_base = <<>>
  /\ fuse_rle = <<>>

\* Lines 94-159, for their duration alone: the batch is fetched at
\* start_time and its windows are run; the clock then shows d ticks more.
BatchTimed(r) ==
  /\ pc[r] = "next_batch"
  /\ batch_iterator[r] < total_batches[r]
  /\ \E d \in Durations : elapsed' = [elapsed EXCEPT ![r] = d]
  /\ pc' = [pc EXCEPT ![r] = "resolve"]
  /\ UNCHANGED <<stderr, fuseVars, failure, runVars, coordVars, fileVars, loopVars,
                 windowVars, labelVars>>

\* Lines 161-173: the batch counter, then the progress line.
ReportProgress(r) ==
  /\ pc[r] = "resolve"
  /\ batch_iterator' = [batch_iterator EXCEPT ![r] = @ + 1]
  /\ stderr' = stderr \o ProgressLines(r, elapsed[r], total_batches[r],
                                       batch_iterator'[r])
  /\ pc' = [pc EXCEPT ![r] = "next_batch"]
  /\ UNCHANGED <<elapsed, fuseVars, failure, runVars, coordVars, fileVars, total_batches,
                 batch, windowVars, labelVars>>

NextEta ==
  \/ \E r \in Ranks : BatchTimed(r)
  \/ \E r \in Ranks : ReportProgress(r)

SpecEta == InitEta /\ [][NextEta]_vars

\* The whole seconds of an estimate of ticks * remaining ticks.
FloorSecs(ticks, remaining) == (ticks * remaining) \div TicksPerSec

\* C11: after each batch the batch counter has increased by exactly one and
\* only the rank-0 worker reports progress; the reported remaining time is
\* E = (duration of the batch just completed) x (total_batches - batches
\* done), and the reported hours, mins and secs are its decomposition:
\* hours = floor(E / 3600), mins = floor((E mod 3600) / 60) < 60,
\* secs = floor(E) mod 60, so hours * 3600 + mins * 60 + secs = floor(E).
C11_EtaDecomposition ==
  /\ Len(stderr) = batch_iterator[0]
  /\ \A n \in DOMAIN stderr :
       LET line == stderr[n]
           E == FloorSecs(line.ticks, line.total - line.done)
       IN  /\ line.rank = 0
           /\ line.done = n
           /\ line.total = total_batches[0]
           /\ line.stamp.hours = E \div 3600
           /\ line.stamp.mins = (E % 3600) \div 60
           /\ line.stamp.mins < 60
           /\ line.stamp.secs = E % 60
           /\ line.stamp.hours * 3600 + line.stamp.mins * 60 + line.stamp.secs = E
====
